---- MODULE Spec2Model ----
(***************************************************************************)
(* Model of MessageTypeToJsonSchema                                        *)
(* (AppServer/google/appengine/ext/endpoints/message_parser.py).           *)
(*                                                                         *)
(* Strings that the code inspects character by character (definition       *)
(* names, schema ids) are sequences of one-character strings.  Python      *)
(* dicts are functions; {} is the empty function <<>>.                     *)
(***************************************************************************)
EXTENDS Integers, Sequences, FiniteSets, TLC

(***************************************************************************)
(* Bounds of the model.                                                    *)
(***************************************************************************)
\* Stand-in for the interpreter's frame limit (sys.getrecursionlimit()).
RecursionLimit == 8
\* Number of calls the owner makes on one engine.
MaxCalls == 3
\* Length of the definition names drawn for the sessions over names.
MaxNameLen == 3

(***************************************************************************)
(* Characters.                                                             *)
(***************************************************************************)
LowerChars == <<"a","b","c","d","e","f","g","h","i","j","k","l","m",
                "n","o","p","q","r","s","t","u","v","w","x","y","z">>
UpperChars == <<"A","B","C","D","E","F","G","H","I","J","K","L","M",
                "N","O","P","Q","R","S","T","U","V","W","X","Y","Z">>
DigitChars == <<"0","1","2","3","4","5","6","7","8","9">>

Range(s) == {s[i] : i \in DOMAIN s}

Letters == Range(LowerChars) \cup Range(UpperChars)

\* the character class [0-9a-zA-Z] of the regular expression
IsAlnum(c) == c \in Letters \cup Range(DigitChars)

\* str.upper() on one character
upper(c) ==
  IF c \in Range(LowerChars)
  THEN UpperChars[CHOOSE i \in DOMAIN LowerChars : LowerChars[i] = c]
  ELSE c

(***************************************************************************)
(* Python values.                                                          *)
(***************************************************************************)
\* A field default or docstring: a tagged value; None is tagged "none".
None == [tag |-> "none", v |-> ""]
Val(tag, v) == [tag |-> tag, v |-> v]

\* bool(x) for the values of the model
Truthy(x) ==
  CASE x.tag = "none"  -> FALSE
    [] x.tag = "int"   -> x.v # "0"
    [] x.tag = "float" -> x.v # "0.0"
    [] x.tag = "bool"  -> x.v # "False"
    [] x.tag = "str"   -> x.v # ""
    [] x.tag = "enum"  -> TRUE
    [] OTHER           -> TRUE

\* str(x) of an enum value is its name, as a string
str(x) == Val("str", x.v)

\* d[k] = v and del d[k] on a dict
DictSet(d, k, v) == [x \in (DOMAIN d) \cup {k} |-> IF x = k THEN v ELSE d[x]]
DictDel(d, k) == [x \in (DOMAIN d) \ {k} |-> d[x]]
EmptyDict == <<>>

(***************************************************************************)
(* Name normalization: the pure part of __normalized_name.                 *)
(***************************************************************************)
\* re.split(r'[^0-9a-zA-Z]', name): one split per separator character,
\* so adjacent separators produce empty parts.
RECURSIVE re_split(_, _, _)
re_split(name, i, cur) ==
  IF i > Len(name) THEN <<cur>>
  ELSE IF IsAlnum(name[i]) THEN re_split(name, i + 1, Append(cur, name[i]))
  ELSE <<cur>> \o re_split(name, i + 1, <<>>)

split_name(name) == re_split(name, 1, <<>>)

\* str.lower() on one character
lower(c) ==
  IF c \in Range(UpperChars)
  THEN LowerChars[CHOOSE i \in DOMAIN UpperChars : UpperChars[i] = c]
  ELSE c

\* the join with part.capitalize(), which lower-cases the rest of the part
RECURSIVE join_parts_capitalize(_, _)
join_parts_capitalize(parts, i) ==
  IF i > Len(parts) THEN <<>>
  ELSE IF Len(parts[i]) = 0 THEN join_parts_capitalize(parts, i + 1)
  ELSE (<<upper(parts[i][1])>>
          \o [k \in 1..(Len(parts[i]) - 1) |-> lower(parts[i][k + 1])])
       \o join_parts_capitalize(parts, i + 1)

\* ''.join(part[0].upper() + part[1:] for part in split_name if part)
RECURSIVE join_parts(_, _)
join_parts(parts, i) ==
  IF i > Len(parts) THEN <<>>
  ELSE IF Len(parts[i]) = 0 THEN join_parts(parts, i + 1)
  ELSE (<<upper(parts[i][1])>> \o Tail(parts[i])) \o join_parts(parts, i + 1)

normalized(name) == join_parts(split_name(name), 1)

(***************************************************************************)
(* The message classes handed to the engine (protorpc, the collaborator).  *)
(* A class is [definition_name, doc, fields]; a field is                   *)
(* [name, kind, required, repeated, default, type], type being the handle  *)
(* of the class a MessageField refers to ("" for the other kinds).         *)
(***************************************************************************)
\* The Field classes of protorpc the engine may meet; "other" stands for
\* any Field class that is not a key of __FIELD_TO_SCHEMA_TYPE_MAP.
Kinds == {"IntegerField", "FloatField", "BooleanField", "BytesField",
          "StringField", "MessageField", "EnumField", "other"}

Field(name, kind, required, repeated, default, type) ==
  [name |-> name, kind |-> kind, required |-> required,
   repeated |-> repeated, default |-> default, type |-> type]

Class(definition_name, doc, fields) ==
  [definition_name |-> definition_name, doc |-> doc, fields |-> fields]

\* Values a field default takes in the model, by field kind.
DefaultsOf(kind) ==
  CASE kind = "IntegerField" -> {None, Val("int", "0"), Val("int", "5")}
    [] kind = "FloatField"   -> {None, Val("float", "0.0"), Val("float", "1.5")}
    [] kind = "BooleanField" -> {None, Val("bool", "False"), Val("bool", "True")}
    [] kind = "BytesField"   -> {None, Val("str", ""), Val("str", "xy")}
    [] kind = "StringField"  -> {None, Val("str", ""), Val("str", "xy")}
    [] kind = "EnumField"    -> {None, Val("enum", "RED")}
    [] kind = "MessageField" -> {None}
    [] OTHER                 -> {None, Val("str", "xy")}

ProbeName == <<"p","k","g",".","s","o","m","e","_","m","e","s","s","a","g","e">>

\* The classes of one session, by handle.  Node refers to itself, A and B
\* to each other; Dotted and Under have names with the same normalized
\* form; Inner2 is a second class object whose definition name is Inner's;
\* the probe class has the fields given.
Classes(probeFields) ==
  ("Inner" :> Class(<<"I","n","n","e","r">>, None,
        <<Field("value", "StringField", FALSE, FALSE, None, "")>>)) @@
  ("Item" :> Class(<<"I","t","e","m">>, None, <<>>)) @@
  ("Outer" :> Class(<<"O","u","t","e","r">>, None,
        <<Field("inner", "MessageField", FALSE, FALSE, None, "Inner"),
          Field("items", "MessageField", FALSE, TRUE, None, "Item")>>)) @@
  ("Node" :> Class(<<"N","o","d","e">>, None,
        <<Field("value", "MessageField", FALSE, FALSE, None, "Inner"),
          Field("next", "MessageField", FALSE, FALSE, None, "Node")>>)) @@
  ("A" :> Class(<<"A">>, None,
        <<Field("b", "MessageField", FALSE, FALSE, None, "B")>>)) @@
  ("B" :> Class(<<"B">>, None,
        <<Field("a", "MessageField", FALSE, TRUE, None, "A")>>)) @@
  ("Dotted" :> Class(<<"a",".","b">>, None, <<>>)) @@
  ("Under" :> Class(<<"a","_","b">>, None, <<>>)) @@
  ("Wrap" :> Class(<<"W","r","a","p">>, None,
        <<Field("first", "MessageField", FALSE, FALSE, None, "Item"),
          Field("second", "MessageField", TRUE, FALSE, None, "Under")>>)) @@
  ("Inner2" :> Class(<<"I","n","n","e","r">>, None, <<>>)) @@
  ("Doc" :> Class(<<"D","o","c">>, Val("str", "A documented message."), <<>>)) @@
  ("Probe" :> Class(ProbeName, None, probeFields))

\* The fields the probe class may have: every kind with every marker.
ProbeFieldSet ==
  {Field("f", kind, required, repeated, default,
         IF kind = "MessageField" THEN target ELSE "") :
     kind \in Kinds, required \in BOOLEAN, repeated \in BOOLEAN,
     default \in UNION {DefaultsOf(k) : k \in Kinds},
     target \in {"Item", "Doc"}}

ProbeFields ==
  {<<f>> : f \in {g \in ProbeFieldSet : g.default \in DefaultsOf(g.kind)}}

(***************************************************************************)
(* State.                                                                  *)
(***************************************************************************)
VARIABLES
  classes,           \* the message classes of the session (never changes)
  schemas,           \* self.__schemas
  normalized_names,  \* self.__normalized_names
  last,              \* the last call: operation, argument, outcome
  snapshot,          \* the dict the last schemas() call returned
  aliased,           \* its keys whose value is the registry's own object
  raised,            \* schema id -> number of name collisions raised for it
  calls              \* number of calls made on the engine

vars == <<classes, schemas, normalized_names, last, snapshot, aliased, raised,
          calls>>

(***************************************************************************)
(* The methods.  A call threads the engine state st through the code:      *)
(* st.err is "none" until an exception is raised and then names it; an     *)
(* exception leaves the dicts as they were when it was raised.  st.log     *)
(* lists the classes whose field loop was entered, in order.               *)
(***************************************************************************)
Entry(sch, names) ==
  [schemas |-> sch, names |-> names, err |-> "none", msg |-> <<>>,
   ret |-> <<>>, log |-> <<>>]

Raise(st, err, msg) == [st EXCEPT !.err = err, !.msg = msg]
Return(st, value) == [st EXCEPT !.ret = value]

\* A call made with `depth` frames on the stack needs frame depth + 1.
StackOverflow(depth) == depth >= RecursionLimit

\* the table with FloatField mapped to 'float'
FIELD_TO_SCHEMA_TYPE_MAP_float ==
  [kind \in {"IntegerField", "FloatField", "BooleanField", "BytesField",
             "StringField", "MessageField", "EnumField"} |->
     CASE kind = "IntegerField" -> "integer"
       [] kind = "FloatField"   -> "float"
       [] kind = "BooleanField" -> "boolean"
       [] kind = "BytesField"   -> "string"
       [] kind = "StringField"  -> "string"
       [] kind = "MessageField" -> "object"
       [] kind = "EnumField"    -> "string"]

FIELD_TO_SCHEMA_TYPE_MAP ==
  [kind \in {"IntegerField", "FloatField", "BooleanField", "BytesField",
             "StringField", "MessageField", "EnumField"} |->
     CASE kind = "IntegerField" -> "integer"
       [] kind = "FloatField"   -> "number"
       [] kind = "BooleanField" -> "boolean"
       [] kind = "BytesField"   -> "string"
       [] kind = "StringField"  -> "string"
       [] kind = "MessageField" -> "object"
       [] kind = "EnumField"    -> "string"]

DEFAULT_SCHEMA_TYPE == "string"

\* __normalized_name without the comparison of the two names: the second
\* name is accepted for the id the first one holds
normalized_name_accepting(st, t, depth) ==
  IF StackOverflow(depth) THEN Raise(st, "RuntimeError", <<>>)
  ELSE
    LET name == classes[t].definition_name
        norm == normalized(name)
        bound == norm \in DOMAIN st.names
    IN  IF bound /\ Len(st.names[norm]) > 0
        THEN Return(st, norm)
        ELSE Return([st EXCEPT !.names = DictSet(@, norm, name)], norm)

\* __normalized_name binding the id to the latest name instead of raising
normalized_name_rebinding(st, t, depth) ==
  IF StackOverflow(depth) THEN Raise(st, "RuntimeError", <<>>)
  ELSE
    LET name == classes[t].definition_name
        norm == normalized(name)
    IN  Return([st EXCEPT !.names = DictSet(@, norm, name)], norm)

\* __normalized_name
normalized_name(st, t, depth) ==
  IF StackOverflow(depth) THEN Raise(st, "RuntimeError", <<>>)
  ELSE
    LET name == classes[t].definition_name
        norm == normalized(name)
        bound == norm \in DOMAIN st.names
    IN  IF bound /\ Len(st.names[norm]) > 0           \* if previous:
        THEN IF st.names[norm] # name
             THEN Raise(st, "collision", <<name, st.names[norm], norm>>)
             ELSE Return(st, norm)
        ELSE Return([st EXCEPT !.names = DictSet(@, norm, name)], norm)

\* the part of the loop body before the call of add_message or the table
\* lookup: descriptor = {} and the $ref / type entry
descriptor_head(field, ref) ==
  IF field.kind = "MessageField"
  THEN LET d == DictSet(EmptyDict, "$ref", ref)
       IN  IF Truthy(classes[field.type].doc)
           THEN DictSet(d, "description", classes[field.type].doc)
           ELSE d
  ELSE DictSet(EmptyDict, "type",
               IF field.kind \in DOMAIN FIELD_TO_SCHEMA_TYPE_MAP
               THEN FIELD_TO_SCHEMA_TYPE_MAP[field.kind]
               ELSE DEFAULT_SCHEMA_TYPE)

\* if field.required: ...
descriptor_required(field, d) ==
  IF field.required THEN DictSet(d, "required", TRUE) ELSE d

\* if field.default: ...
descriptor_default(field, d) ==
  IF Truthy(field.default)
  THEN IF field.kind = "EnumField"
       THEN DictSet(d, "default", str(field.default))
       ELSE DictSet(d, "default", field.default)
  ELSE d

\* the repeated branch without del descriptor['$ref']
descriptor_repeated_keeping_ref(field, d) ==
  IF field.repeated
  THEN IF "$ref" \in DOMAIN d
       THEN DictSet(DictSet(d, "items", DictSet(EmptyDict, "$ref", d["$ref"])),
                    "type", "array")
       ELSE DictSet(DictSet(d, "items", DictSet(EmptyDict, "type", d["type"])),
                    "type", "array")
  ELSE d

\* if field.repeated: ...
descriptor_repeated(field, d) ==
  IF field.repeated
  THEN IF "$ref" \in DOMAIN d
       THEN DictSet(DictDel(DictSet(d, "items", DictSet(EmptyDict, "$ref", d["$ref"])),
                            "$ref"),
                    "type", "array")
       ELSE DictSet(DictSet(d, "items", DictSet(EmptyDict, "type", d["type"])),
                    "type", "array")
  ELSE d

\* the descriptor of one field, given the id add_message returned for it
descriptor_of(field, ref) ==
  descriptor_repeated(field,
    descriptor_default(field,
      descriptor_required(field, descriptor_head(field, ref))))

RECURSIVE add_message(_, _, _)
RECURSIVE message_to_schema(_, _, _)
RECURSIVE all_fields_loop(_, _, _, _, _)
RECURSIVE all_fields_loop_naming(_, _, _, _, _)

\* the loop taking the $ref from __normalized_name instead of add_message
all_fields_loop_naming(st, t, i, properties, frame) ==
  LET fields == classes[t].fields IN
  IF i > Len(fields) THEN Return(st, properties)
  ELSE
    LET field == fields[i] IN
    IF field.kind = "MessageField"
    THEN LET s1 == normalized_name(st, field.type, frame)
         IN  IF s1.err # "none" THEN s1
             ELSE all_fields_loop_naming(s1, t, i + 1,
                    DictSet(properties, field.name, descriptor_of(field, s1.ret)),
                    frame)
    ELSE all_fields_loop_naming(st, t, i + 1,
           DictSet(properties, field.name, descriptor_of(field, <<>>)),
           frame)

\* for field in message_type.all_fields(): ... properties[field.name] = descriptor
\* frame is the number of frames in use while the loop runs
all_fields_loop(st, t, i, properties, frame) ==
  LET fields == classes[t].fields IN
  IF i > Len(fields) THEN Return(st, properties)
  ELSE
    LET field == fields[i] IN
    IF field.kind = "MessageField"
    THEN LET s1 == add_message(st, field.type, frame)
         IN  IF s1.err # "none" THEN s1
             ELSE all_fields_loop(s1, t, i + 1,
                    DictSet(properties, field.name, descriptor_of(field, s1.ret)),
                    frame)
    ELSE all_fields_loop(st, t, i + 1,
           DictSet(properties, field.name, descriptor_of(field, <<>>)),
           frame)

\* __message_to_schema
message_to_schema(st, t, depth) ==
  IF StackOverflow(depth) THEN Raise(st, "RuntimeError", <<>>)
  ELSE
    LET s1 == normalized_name(st, t, depth + 1) IN
    IF s1.err # "none" THEN s1
    ELSE
      LET name == s1.ret
          schema0 == DictSet(DictSet(EmptyDict, "id", name), "type", "object")
          schema1 == IF Truthy(classes[t].doc)
                     THEN DictSet(schema0, "description", classes[t].doc)
                     ELSE schema0
          s2 == all_fields_loop([s1 EXCEPT !.log = Append(@, t)], t, 1,
                                EmptyDict, depth + 1)
      IN  IF s2.err # "none" THEN s2
          ELSE Return(s2, DictSet(schema1, "properties", s2.ret))

\* add_message without the test of the registry
add_message_unmemoized(st, t, depth) ==
  IF StackOverflow(depth) THEN Raise(st, "RuntimeError", <<>>)
  ELSE
    LET s1 == normalized_name(st, t, depth + 1) IN
    IF s1.err # "none" THEN s1
    ELSE
      LET name == s1.ret
          s2 == message_to_schema(s1, t, depth + 1)
      IN  IF s2.err # "none" THEN s2
          ELSE Return([s2 EXCEPT !.schemas = DictSet(@, name, s2.ret)], name)

\* add_message putting the schema's skeleton in the registry before the
\* fields are converted
add_message_reserving(st, t, depth) ==
  IF StackOverflow(depth) THEN Raise(st, "RuntimeError", <<>>)
  ELSE
    LET s1 == normalized_name(st, t, depth + 1) IN
    IF s1.err # "none" THEN s1
    ELSE
      LET name == s1.ret IN
      IF name \notin DOMAIN s1.schemas
      THEN LET skeleton == DictSet(DictSet(EmptyDict, "id", name),
                                   "type", "object")
               s2 == message_to_schema(
                       [s1 EXCEPT !.schemas = DictSet(@, name, skeleton)],
                       t, depth + 1)
           IN  IF s2.err # "none" THEN s2
               ELSE Return([s2 EXCEPT !.schemas = DictSet(@, name, s2.ret)], name)
      ELSE Return(s1, name)

\* add_message
add_message(st, t, depth) ==
  IF StackOverflow(depth) THEN Raise(st, "RuntimeError", <<>>)
  ELSE
    LET s1 == normalized_name(st, t, depth + 1) IN
    IF s1.err # "none" THEN s1
    ELSE
      LET name == s1.ret IN
      IF name \notin DOMAIN s1.schemas
      THEN LET s2 == message_to_schema(s1, t, depth + 1)
           IN  IF s2.err # "none" THEN s2
               ELSE Return([s2 EXCEPT !.schemas = DictSet(@, name, s2.ret)], name)
      ELSE Return(s1, name)

\* ref_for_message_type without the test of the registry
ref_for_message_type_unchecked(st, t, depth) ==
  IF StackOverflow(depth) THEN Raise(st, "RuntimeError", <<>>)
  ELSE normalized_name(st, t, depth + 1)

\* ref_for_message_type
ref_for_message_type(st, t, depth) ==
  IF StackOverflow(depth) THEN Raise(st, "RuntimeError", <<>>)
  ELSE
    LET s1 == normalized_name(st, t, depth + 1) IN
    IF s1.err # "none" THEN s1
    ELSE
      LET name == s1.ret IN
      IF name \notin DOMAIN s1.schemas
      THEN Raise(s1, "not_parsed", <<name>>)
      ELSE Return(s1, name)

\* schemas(): self.__schemas.copy()
schemas_copy(sch) == [k \in DOMAIN sch |-> sch[k]]

(***************************************************************************)
(* The state machine: one engine, called by its owner.                     *)
(***************************************************************************)
NoCall == [op |-> "init", arg |-> "", err |-> "none", msg |-> <<>>,
           ret |-> <<>>, log |-> <<>>, fresh |-> TRUE]

Outcome(op, t, r) ==
  [op |-> op, arg |-> t, err |-> r.err, msg |-> r.msg,
   ret |-> IF r.err = "none" THEN r.ret ELSE <<>>, log |-> r.log,
   fresh |-> schemas = EmptyDict /\ normalized_names = EmptyDict]

\* the collision counter after a call with outcome r
Count(r) ==
  IF r.err = "collision"
  THEN DictSet(raised, r.msg[3],
               1 + (IF r.msg[3] \in DOMAIN raised THEN raised[r.msg[3]] ELSE 0))
  ELSE raised

\* the engine's constructor, for a session over the classes given
Construct(cls) ==
  /\ classes = cls
  /\ schemas = EmptyDict
  /\ normalized_names = EmptyDict
  /\ last = NoCall
  /\ snapshot = EmptyDict
  /\ aliased = {}
  /\ raised = EmptyDict
  /\ calls = 0

Init == Construct(Classes(<<Field("count", "IntegerField", TRUE, FALSE, None, ""),
                            Field("tags", "StringField", FALSE, TRUE, None, "")>>))

AddMessage(t) ==
  /\ calls < MaxCalls
  /\ LET r == add_message(Entry(schemas, normalized_names), t, 0)
     IN  /\ schemas' = r.schemas
         /\ normalized_names' = r.names
         /\ last' = Outcome("add_message", t, r)
         /\ raised' = Count(r)
  /\ calls' = calls + 1
  /\ UNCHANGED <<classes, snapshot, aliased>>

RefForMessageType(t) ==
  /\ calls < MaxCalls
  /\ LET r == ref_for_message_type(Entry(schemas, normalized_names), t, 0)
     IN  /\ schemas' = r.schemas
         /\ normalized_names' = r.names
         /\ last' = Outcome("ref_for_message_type", t, r)
         /\ raised' = Count(r)
  /\ calls' = calls + 1
  /\ UNCHANGED <<classes, snapshot, aliased>>

Schemas ==
  /\ calls < MaxCalls
  /\ calls' = calls + 1
  /\ snapshot' = schemas_copy(schemas)
  /\ aliased' = DOMAIN schemas
  /\ last' = [NoCall EXCEPT !.op = "schemas",
                            !.fresh = schemas = EmptyDict /\ normalized_names = EmptyDict]
  /\ UNCHANGED <<classes, schemas, normalized_names, raised>>

Next ==
  \/ \E t \in DOMAIN classes : AddMessage(t)
  \/ \E t \in DOMAIN classes : RefForMessageType(t)
  \/ Schemas

Spec == Init /\ [][Next]_vars

\* Sessions over three classes, the probe class having any one field.
InitFields ==
  \E fs \in ProbeFields :
    Construct([t \in {"Item", "Doc", "Probe"} |-> Classes(fs)[t]])

SpecFields == InitFields /\ [][Next]_vars

\* The characters of the drawn definition names: a lower-case letter, an
\* upper-case letter, a digit and a separator.
NameAlphabet == {"a", "B", "1", "_"}

\* the non-empty names of at most MaxNameLen characters, and the probe's
DrawnNames ==
  UNION {[1..n -> NameAlphabet] : n \in 1..MaxNameLen} \cup {ProbeName}

\* Sessions over two classes without fields: First has a drawn definition
\* name, Second the name a_1.
InitNames ==
  \E name \in DrawnNames :
    Construct(("First" :> Class(name, None, <<>>)) @@
              ("Second" :> Class(<<"a","_","1">>, None, <<>>)))

SpecNames == InitNames /\ [][Next]_vars

\* Sessions in which a conversion fails in a nested field: Deep refers to
\* Inner, then to Wrap, whose second field meets the name collision of
\* Under with Dotted, then to Doc.
InitNested ==
  Construct([t \in {"Inner", "Item", "Dotted", "Under", "Wrap", "Doc"}
               |-> Classes(<<>>)[t]] @@
            ("Deep" :> Class(<<"D","e","e","p">>, None,
               <<Field("inner", "MessageField", FALSE, FALSE, None, "Inner"),
                 Field("wrap", "MessageField", FALSE, TRUE, None, "Wrap"),
                 Field("doc", "MessageField", FALSE, FALSE, None, "Doc")>>)))

SpecNested == InitNested /\ [][Next]_vars

(***************************************************************************)
(* The owner working on the dict that schemas() returned.  The copy is a   *)
(* new dict holding the registry's schema objects themselves: setting or   *)
(* deleting a key touches the copy only, while a change made to a schema   *)
(* object that the copy still holds is a change of the registry's object.  *)
(***************************************************************************)
Changed == Val("str", "changed")

\* the registry after the object the returned dict holds at k became obj
Shared(k, obj) ==
  IF k \in aliased THEN [schemas EXCEPT ![k] = obj] ELSE schemas

\* returned[k] = {}
ReturnedSetKey(k) ==
  /\ k \notin DOMAIN snapshot \/ k \in aliased
  /\ snapshot' = DictSet(snapshot, k, EmptyDict)
  /\ aliased' = aliased \ {k}
  /\ UNCHANGED <<classes, schemas, normalized_names, last, raised, calls>>

\* del returned[k]
ReturnedDelKey(k) ==
  /\ k \in DOMAIN snapshot
  /\ snapshot' = DictDel(snapshot, k)
  /\ aliased' = aliased \ {k}
  /\ UNCHANGED <<classes, schemas, normalized_names, last, raised, calls>>

\* returned[k]['description'] = 'changed'
ReturnedSetDescription(k) ==
  /\ k \in DOMAIN snapshot
  /\ LET obj == DictSet(snapshot[k], "description", Changed)
     IN  /\ snapshot' = [snapshot EXCEPT ![k] = obj]
         /\ schemas' = Shared(k, obj)
  /\ UNCHANGED <<classes, normalized_names, last, aliased, raised, calls>>

\* returned[k]['properties'].clear()
ReturnedClearProperties(k) ==
  /\ k \in DOMAIN snapshot
  /\ "properties" \in DOMAIN snapshot[k]
  /\ LET obj == DictSet(snapshot[k], "properties", EmptyDict)
     IN  /\ snapshot' = [snapshot EXCEPT ![k] = obj]
         /\ schemas' = Shared(k, obj)
  /\ UNCHANGED <<classes, normalized_names, last, aliased, raised, calls>>

\* the ids of the classes of the session
Ids == {normalized(classes[t].definition_name) : t \in DOMAIN classes}

NextOwner ==
  \/ Next
  \/ \E k \in Ids : ReturnedSetKey(k)
  \/ \E k \in Ids : ReturnedDelKey(k)
  \/ \E k \in Ids : ReturnedSetDescription(k)
  \/ \E k \in Ids : ReturnedClearProperties(k)

\* Sessions over the classes Inner, Item and Outer, the owner also working
\* on what schemas() returned.
InitOwner ==
  Construct([t \in {"Inner", "Item", "Outer"} |-> Classes(<<>>)[t]])

SpecOwner == InitOwner /\ [][NextOwner]_vars

(***************************************************************************)
(* Vocabulary of the properties.                                           *)
(***************************************************************************)
NameOf(t) == classes[t].definition_name
IdOf(t) == normalized(NameOf(t))

\* the classes the message fields of t refer to
Refs(t) ==
  {classes[t].fields[i].type :
     i \in {j \in DOMAIN classes[t].fields :
              classes[t].fields[j].kind = "MessageField"}}

RECURSIVE Closure(_, _)
Closure(S, n) ==
  IF n = 0 THEN S ELSE Closure(S \cup UNION {Refs(u) : u \in S}, n - 1)

\* the classes reached from t through one or more message fields
Reach(t) == Closure(Refs(t), Cardinality(DOMAIN classes))
OnCycle(t) == t \in Reach(t)
CycleOf(t) == {u \in Reach(t) : t \in Reach(u)}

\* t's schema is in the registry under t's own definition name
Registered(t) ==
  /\ IdOf(t) \in DOMAIN schemas
  /\ normalized_names[IdOf(t)] = NameOf(t)

\* this step is a call of the method op on class t
Called(op, t) == calls' = calls + 1 /\ last'.op = op /\ last'.arg = t

\* the dict d without the keys given
Without(d, keys) == [k \in (DOMAIN d) \ keys |-> d[k]]

\* the table of schema types, as the documentation of the engine gives it
ExpectedType(kind) ==
  CASE kind = "IntegerField" -> "integer"
    [] kind = "FloatField"   -> "number"
    [] kind = "BooleanField" -> "boolean"
    [] kind = "BytesField"   -> "string"
    [] kind = "StringField"  -> "string"
    [] kind = "EnumField"    -> "string"
    [] OTHER                 -> "string"

\* the properties of the registered schema of class t
PropertiesOf(t) == schemas[IdOf(t)]["properties"]

(***************************************************************************)
(* C1 (as claimed): add_message(T) on a fresh engine, for a class T that   *)
(* lies on a reference cycle, returns T's schema id and leaves T and every *)
(* class of the cycle registered.                                          *)
(***************************************************************************)
C1_CyclicAddSucceeds ==
  \A t \in DOMAIN classes :
    (last.op = "add_message" /\ last.arg = t /\ last.fresh /\ OnCycle(t))
      => /\ last.err = "none"
         /\ last.ret = IdOf(t)
         /\ \A u \in CycleOf(t) : IdOf(u) \in DOMAIN schemas

(***************************************************************************)
(* C2 (as claimed): within one add_message call the field loop is entered  *)
(* at most once for a class: a nested add_message of a class whose         *)
(* conversion is in progress returns its id without converting it again.   *)
(***************************************************************************)
C2_ConvertedAtMostOnce ==
  \A i, j \in DOMAIN last.log : last.log[i] = last.log[j] => i = j

(***************************************************************************)
(* C3 (as claimed): for one schema id the name-collision error is raised   *)
(* at most once in a session.                                              *)
(***************************************************************************)
C3_RaisedExactlyOnce ==
  \A id \in DOMAIN raised : raised[id] <= 1

(***************************************************************************)
(* C3 (amended): once an id is bound to one name, every add_message call   *)
(* for a class whose different name has that id raises the name-collision  *)
(* error, reporting the new name, the bound name and the id, and changes   *)
(* nothing; any collision raised (also from a nested message field)        *)
(* reports two distinct names with the same normalized form, the second    *)
(* being the one bound; the call for the name that is bound, or that finds *)
(* the id unbound, is never refused for that name.                         *)
(***************************************************************************)
C3_CollisionOnEveryConflictingCall ==
  [][\A t \in DOMAIN classes :
       Called("add_message", t) =>
         /\ (IdOf(t) \in DOMAIN normalized_names
               /\ normalized_names[IdOf(t)] # NameOf(t))
              => /\ last'.err = "collision"
                 /\ last'.msg = <<NameOf(t), normalized_names[IdOf(t)], IdOf(t)>>
                 /\ schemas' = schemas
                 /\ normalized_names' = normalized_names
         /\ last'.err = "collision"
              => /\ last'.msg[1] # last'.msg[2]
                 /\ normalized(last'.msg[1]) = last'.msg[3]
                 /\ normalized(last'.msg[2]) = last'.msg[3]
                 /\ normalized_names'[last'.msg[3]] = last'.msg[2]
         /\ (IdOf(t) \notin DOMAIN normalized_names
               \/ normalized_names[IdOf(t)] = NameOf(t))
              => ~(last'.err = "collision" /\ last'.msg[1] = NameOf(t))
    ]_vars

\* the collision for one id has been raised a second time
C3_Witness ==
  /\ last.op = "add_message"
  /\ last.err = "collision"
  /\ raised[last.msg[3]] >= 2

(***************************************************************************)
(* C4: add_message(T) called when T's id is a key of the registry, bound   *)
(* to T's definition name, returns that id, converts nothing and leaves    *)
(* the registry and the name table exactly as they were.                   *)
(***************************************************************************)
C4_AddIsMemoized ==
  [][\A t \in DOMAIN classes :
       (Called("add_message", t) /\ Registered(t))
         => /\ last'.err = "none"
            /\ last'.ret = IdOf(t)
            /\ last'.log = <<>>
            /\ schemas' = schemas
            /\ normalized_names' = normalized_names
    ]_vars

\* Inner2 added after Inner: the schema built from Inner is still the entry
C4_Witness ==
  /\ last.op = "add_message"
  /\ last.arg = "Inner2"
  /\ last.err = "none"
  /\ last.log = <<>>
  /\ "value" \in DOMAIN schemas[last.ret]["properties"]

(***************************************************************************)
(* C5 (as claimed): ref_for_message_type(T) raises the not-registered      *)
(* error whenever T is not registered, and returns T's id, the one         *)
(* add_message returns, whenever it is.                                    *)
(***************************************************************************)
C5_NotRegisteredWheneverUnregistered ==
  [][\A t \in DOMAIN classes :
       Called("ref_for_message_type", t) =>
         IF Registered(t)
         THEN last'.err = "none" /\ last'.ret = IdOf(t)
         ELSE last'.err = "not_parsed"
    ]_vars

(***************************************************************************)
(* C5 (amended): ref_for_message_type(T) raises whenever T is not          *)
(* registered: the name-collision error if T's id is bound to a different  *)
(* definition name, the not-registered error otherwise; whenever T is      *)
(* registered it returns T's id, which is what a successful add_message(T) *)
(* returns.                                                                *)
(***************************************************************************)
C5_RefRaisesUnlessRegistered ==
  [][\A t \in DOMAIN classes :
       /\ Called("ref_for_message_type", t) =>
            IF Registered(t)
            THEN last'.err = "none" /\ last'.ret = IdOf(t)
            ELSE IF IdOf(t) \in DOMAIN normalized_names
                      /\ normalized_names[IdOf(t)] # NameOf(t)
                 THEN last'.err = "collision"
                 ELSE last'.err = "not_parsed"
       /\ (Called("add_message", t) /\ last'.err = "none")
            => last'.ret = IdOf(t) /\ Registered(t)'
    ]_vars

\* a lookup refused with the name-collision error
C5_Witness ==
  /\ last.op = "ref_for_message_type"
  /\ last.err = "collision"
  /\ ~Registered(last.arg)
  /\ last.msg[3] \in DOMAIN schemas

(***************************************************************************)
(* C6: every key of the registry is bound in the name table to a           *)
(* definition name that normalizes to it; a binding, once made, never      *)
(* changes; and a call that returns an id was made for the name the id is  *)
(* bound to, so no second name is ever accepted for an id.                 *)
(***************************************************************************)
C6_BindingIsPermanent ==
  [][/\ DOMAIN schemas' \subseteq DOMAIN normalized_names'
     /\ \A id \in DOMAIN normalized_names' :
          normalized(normalized_names'[id]) = id
     /\ \A id \in DOMAIN normalized_names :
          /\ id \in DOMAIN normalized_names'
          /\ normalized_names'[id] = normalized_names[id]
     /\ \A id \in DOMAIN schemas :
          id \in DOMAIN schemas' /\ schemas'[id]["id"] = id
     /\ (last'.op \in {"add_message", "ref_for_message_type"}
           /\ last'.err = "none")
          => normalized_names'[last'.ret] = NameOf(last'.arg)
    ]_vars

\* a second name was refused for a registered id, whose binding stands
C6_Witness ==
  /\ last.err = "collision"
  /\ last.msg[3] \in DOMAIN schemas
  /\ normalized_names[last.msg[3]] = last.msg[2]
  /\ NameOf(last.arg) = last.msg[1]

(***************************************************************************)
(* C7 (as claimed): ref_for_message_type and schemas leave the registry    *)
(* and the name table unchanged, whether they return or raise.             *)
(***************************************************************************)
C7_LookupsChangeNothing ==
  [][(calls' = calls + 1 /\ last'.op \in {"ref_for_message_type", "schemas"})
       => schemas' = schemas /\ normalized_names' = normalized_names
    ]_vars

C9_TypeFromTable ==
  /\ (last.op = "add_message" /\ last.arg = "Probe"
        /\ \A j \in DOMAIN classes["Probe"].fields :
             classes["Probe"].fields[j].kind # "MessageField")
       => last.err = "none" /\ IdOf("Probe") \in DOMAIN schemas
  /\ IdOf("Probe") \in DOMAIN schemas =>
       \A j \in DOMAIN classes["Probe"].fields :
         LET f == classes["Probe"].fields[j]
             d == PropertiesOf("Probe")[f.name]
         IN  f.kind # "MessageField" =>
               /\ (IF f.repeated THEN d["items"]["type"] ELSE d["type"])
                    = ExpectedType(f.kind)
               /\ ("required" \in DOMAIN d) = f.required
               /\ "required" \in DOMAIN d => d["required"] = TRUE
               /\ (f.kind = "IntegerField" /\ f.required /\ ~f.repeated
                     /\ f.default = None)
                    => d = [type |-> "integer", required |-> TRUE]

\* a class with a field of a kind the table does not list was added
C9_Witness ==
  /\ last.op = "add_message"
  /\ last.arg = "Probe"
  /\ last.err = "none"
  /\ classes["Probe"].fields[1].kind = "other"
  /\ ~classes["Probe"].fields[1].repeated
  /\ classes["Probe"].fields[1].required
  /\ PropertiesOf("Probe")["f"]["type"] = "string"

(***************************************************************************)
(* C10: the descriptor of a repeated field has type array, no $ref, and    *)
(* items holding exactly {type: mapped type} for a primitive field and     *)
(* {$ref: id} for a message field; the descriptor of a non-repeated field  *)
(* has no items.  An optional repeated string field without default has    *)
(* exactly {type: array, items: {type: string}}; an optional repeated      *)
(* message field of the undocumented class Item has exactly                *)
(* {type: array, items: {$ref: Item}}.                                     *)
(***************************************************************************)
C10_RepeatedWrapsItems ==
  IdOf("Probe") \in DOMAIN schemas =>
    \A j \in DOMAIN classes["Probe"].fields :
      LET f == classes["Probe"].fields[j]
          d == PropertiesOf("Probe")[f.name]
      IN  /\ f.repeated =>
                /\ d["type"] = "array"
                /\ "$ref" \notin DOMAIN d
                /\ "items" \in DOMAIN d
                /\ d["items"] = IF f.kind = "MessageField"
                                THEN ("$ref" :> IdOf(f.type))
                                ELSE ("type" :> ExpectedType(f.kind))
          /\ ~f.repeated => "items" \notin DOMAIN d
          /\ (f.repeated /\ ~f.required /\ f.default = None
                /\ f.kind = "StringField")
               => d = [type |-> "array", items |-> [type |-> "string"]]
          /\ (f.repeated /\ ~f.required /\ f.default = None
                /\ f.kind = "MessageField" /\ f.type = "Item")
               => d = [type |-> "array",
                       items |-> ("$ref" :> <<"I","t","e","m">>)]

\* a class with an optional repeated message field of class Item was added
C10_Witness ==
  /\ IdOf("Probe") \in DOMAIN schemas
  /\ classes["Probe"].fields[1].repeated
  /\ ~classes["Probe"].fields[1].required
  /\ classes["Probe"].fields[1].kind = "MessageField"
  /\ classes["Probe"].fields[1].type = "Item"
  /\ "items" \in DOMAIN PropertiesOf("Probe")["f"]
  /\ <<"I","t","e","m">> \in DOMAIN schemas

(***************************************************************************)
(* C11: the id computed for a definition name is the name without its      *)
(* non-alphanumeric characters, each alphanumeric character that starts a  *)
(* maximal alphanumeric segment upper-cased and every other one unchanged  *)
(* (pkg.some_message gives PkgSomeMessage); every call that returns, in    *)
(* whatever state of the engine, returns that id, and every id of the name *)
(* table is that of the name it is bound to.                               *)
(***************************************************************************)
RECURSIVE CamelFrom(_, _)
CamelFrom(name, i) ==
  IF i > Len(name) THEN <<>>
  ELSE (IF ~IsAlnum(name[i]) THEN <<>>
        ELSE IF i = 1 \/ ~IsAlnum(name[i - 1]) THEN <<upper(name[i])>>
        ELSE <<name[i]>>) \o CamelFrom(name, i + 1)

CamelCase(name) == CamelFrom(name, 1)

C11_NormalizedIsCamelCase ==
  /\ \A t \in DOMAIN classes :
       /\ normalized(NameOf(t)) = CamelCase(NameOf(t))
       /\ NameOf(t) = ProbeName
            => normalized(NameOf(t))
                 = <<"P","k","g","S","o","m","e","M","e","s","s","a","g","e">>
  /\ (last.op \in {"add_message", "ref_for_message_type"} /\ last.err = "none")
       => last.ret = CamelCase(NameOf(last.arg))
  /\ \A id \in DOMAIN normalized_names : id = CamelCase(normalized_names[id])

\* a name with an upper-case letter inside a segment was added to an engine
\* that had served calls before
C11_Witness ==
  /\ last.op = "add_message"
  /\ last.err = "none"
  /\ ~last.fresh
  /\ NameOf(last.arg) = <<"a", "B", "_">>
  /\ last.ret = <<"A", "B">>

(***************************************************************************)
(* C12 (as claimed): every key of the registry and of the name table and   *)
(* every id a call returns matches [a-zA-Z][a-zA-Z0-9]*.                    *)
(***************************************************************************)
IsIdentifier(id) ==
  /\ Len(id) >= 1
  /\ id[1] \in Letters
  /\ \A i \in DOMAIN id : IsAlnum(id[i])

C12_IdsAreIdentifiers ==
  /\ \A id \in (DOMAIN schemas) \cup (DOMAIN normalized_names) : IsIdentifier(id)
  /\ (last.op \in {"add_message", "ref_for_message_type"} /\ last.err = "none")
       => IsIdentifier(last.ret)

(***************************************************************************)
(* C13 (as claimed): schemas() returns the registry as it is at the call;  *)
(* a later add_message or ref_for_message_type call does not change what   *)
(* was returned; and nothing the owner does to what was returned (setting  *)
(* or deleting a key, altering a schema object or its properties) changes  *)
(* the registry or the name table.                                         *)
(***************************************************************************)
C13_SnapshotIsReadOnly ==
  [][/\ (calls' = calls + 1 /\ last'.op = "schemas")
          => snapshot' = schemas /\ schemas' = schemas
     /\ (calls' = calls + 1 /\ last'.op # "schemas")
          => snapshot' = snapshot
     /\ calls' = calls
          => schemas' = schemas /\ normalized_names' = normalized_names
    ]_vars

(***************************************************************************)
(* C14: across the calls on the engine the name table and the registry     *)
(* only grow: a bound id stays bound to the same name, a stored schema     *)
(* stays stored and the same, and every key of the registry is a key of    *)
(* the name table.                                                         *)
(***************************************************************************)
C14_TablesOnlyGrow ==
  [][/\ \A id \in DOMAIN normalized_names :
          /\ id \in DOMAIN normalized_names'
          /\ normalized_names'[id] = normalized_names[id]
     /\ \A id \in DOMAIN schemas :
          /\ id \in DOMAIN schemas'
          /\ schemas'[id] = schemas[id]
     /\ (DOMAIN schemas') \subseteq (DOMAIN normalized_names')
     /\ Cardinality(DOMAIN schemas') >= Cardinality(DOMAIN schemas)
     /\ Cardinality(DOMAIN normalized_names')
          >= Cardinality(DOMAIN normalized_names)
    ]_vars

\* a lookup that failed left the name table larger than the registry,
\* whose entries stand
C14_Witness ==
  /\ last.op = "ref_for_message_type"
  /\ last.err = "not_parsed"
  /\ schemas # EmptyDict
  /\ (DOMAIN schemas) # (DOMAIN normalized_names)
  /\ (DOMAIN schemas) \subseteq (DOMAIN normalized_names)

(***************************************************************************)
(* C15: when add_message(T) fails with a name collision met in a nested    *)
(* message field, the registry afterwards is the registry before plus the  *)
(* complete schemas of the nested classes converted before the failure:    *)
(* neither T nor any class whose conversion was in progress (one from      *)
(* which the refused class is reached) has an entry, and every entry of    *)
(* the registry is the complete schema of a class, with a property for     *)
(* each of its fields and an entry for each class it refers to.            *)
(***************************************************************************)
FieldNames(u) == {classes[u].fields[j].name : j \in DOMAIN classes[u].fields}

\* sch is a whole schema of class u, in the registry reg
Complete(sch, reg, u) ==
  /\ DOMAIN sch = {"id", "type", "properties"}
                    \cup (IF Truthy(classes[u].doc) THEN {"description"} ELSE {})
  /\ sch["id"] = IdOf(u)
  /\ sch["type"] = "object"
  /\ DOMAIN sch["properties"] = FieldNames(u)
  /\ \A v \in Refs(u) : IdOf(v) \in DOMAIN reg

C15_FailureStoresNothingPartial ==
  [][/\ \A id \in DOMAIN schemas' :
          \E u \in DOMAIN classes :
            IdOf(u) = id /\ Complete(schemas'[id], schemas', u)
     /\ \A t \in DOMAIN classes :
          (Called("add_message", t) /\ last'.err = "collision"
             /\ last'.log # <<>>)
            => /\ IdOf(t) \notin DOMAIN schemas'
               /\ \A id \in DOMAIN schemas :
                    id \in DOMAIN schemas' /\ schemas'[id] = schemas[id]
               /\ \A i \in DOMAIN last'.log :
                    LET u == last'.log[i] IN
                    IF \E v \in Reach(u) : NameOf(v) = last'.msg[1]
                    THEN IdOf(u) \notin DOMAIN schemas'
                    ELSE /\ IdOf(u) \in DOMAIN schemas'
                         /\ Complete(schemas'[IdOf(u)], schemas', u)
               /\ \A id \in (DOMAIN schemas') \ (DOMAIN schemas) :
                    \E i \in DOMAIN last'.log : IdOf(last'.log[i]) = id
    ]_vars

\* add_message(Deep) failed in Wrap's second field: Inner and Item have
\* their entries, Deep, Wrap and Doc have none
C15_Witness ==
  /\ last.op = "add_message"
  /\ last.arg = "Deep"
  /\ last.err = "collision"
  /\ last.log = <<"Deep", "Inner", "Wrap", "Item">>
  /\ {IdOf("Inner"), IdOf("Item")} \subseteq DOMAIN schemas
  /\ {IdOf("Deep"), IdOf("Wrap"), IdOf("Doc")} \cap DOMAIN schemas = {}

(***************************************************************************)
(* C16 (as claimed): a field's descriptor has a default key exactly when   *)
(* the field has a default value set, 0, 0.0 and false included; its value *)
(* is the string form of the default for an enum field and the default     *)
(* itself for every other kind; for a repeated field it is on the outer    *)
(* descriptor, not in items.                                               *)
(***************************************************************************)
C16_DefaultWheneverSet ==
  IdOf("Probe") \in DOMAIN schemas =>
    \A j \in DOMAIN classes["Probe"].fields :
      LET f == classes["Probe"].fields[j]
          d == PropertiesOf("Probe")[f.name]
      IN  /\ ("default" \in DOMAIN d) = (f.default # None)
          /\ "default" \in DOMAIN d
               => d["default"] = IF f.kind = "EnumField"
                                 THEN Val("str", f.default.v)
                                 ELSE f.default
          /\ f.repeated => "default" \notin DOMAIN d["items"]

====
